---- MODULE Spec2Model ----
(***************************************************************************)
(* Model of task_1_starter_code.py: the shelf packer pack_images_shelf,    *)
(* and the size normalisation and height ordering done by main before it   *)
(* calls the packer.                                                       *)
(*                                                                         *)
(* An image size is the tuple <<w, h, idx>> and a placement the tuple      *)
(* <<idx, x, y, w, h>>, as in the source.  The source indexes lists from   *)
(* 0; sequences here start at 1, so images_sizes[i] of the source is       *)
(* images_sizes[i + 1] here, while the variable i keeps the source value.  *)
(*                                                                         *)
(* round() is modelled exactly on the rational value, halves going to the  *)
(* even neighbour.  The source rounds the double product w * (max_w / w);  *)
(* for every operand below 22 the two agree, which covers the inputs the   *)
(* specifications below enumerate.                                         *)
(***************************************************************************)
EXTENDS Integers, Sequences, FiniteSets, TLC

VARIABLES
    images_sizes,   \* pack_images_shelf: the list of <<w, h, idx>> to pack
    page_w_px,      \* page width in pixels
    page_h_px,      \* page height in pixels
    padding,        \* gap between images and to the page border
    pages,          \* pack_images_shelf: pages emitted so far
    placements,     \* pack_images_shelf: placements of the page being filled
    i,              \* index of the next image to place (0-based)
    y,              \* vertical cursor of the page being filled
    pc,             \* position in the code
    steps,          \* history: passes of the shelf loop run so far
    fallback_ids,   \* history: ids placed by the oversized-width branch
    pil_sizes,      \* main: natural sizes <<w, h>> of the loaded images
    sizes,          \* main: normalised sizes <<w2, h2, idx>>
    longer,         \* comparison run: the image list with one image added
    outcome         \* comparison run: results of packing both lists

vars == <<images_sizes, page_w_px, page_h_px, padding, pages, placements, i, y,
          pc, steps, fallback_ids, pil_sizes, sizes, longer, outcome>>

packVars == <<pages, placements, i, y, steps, fallback_ids>>

(***************************************************************************)
(* Bounds of the model.                                                    *)
(***************************************************************************)
MaxImages == 3      \* longest enumerated image list given to the packer
MaxDim == 2         \* largest enumerated image width and height
MaxPage == 3        \* largest enumerated page width and height
MaxPad == 1         \* largest enumerated padding
MaxExtraPages == 1  \* pages beyond one per image that a run may append
MaxNatural == 3     \* largest natural width and height given to main
MaxNormImages == 2  \* longest image list given to main
MaxUsable == 2      \* largest page size beyond the margin given to main
MaxMonoImages == 2  \* longest list of the comparison run before the addition

NORM_MARGIN == 16   \* main: max_w = page_w_px - 16, max_h = page_h_px - 16

MAIN_PADDING == 12  \* main: pack_images_shelf(..., padding=12)

(***************************************************************************)
(* round(a / b) for b > 0 as Python 3 computes it: to the nearest integer, *)
(* a half to the even neighbour.  \div rounds towards minus infinity.      *)
(***************************************************************************)
Round(a, b) ==
    LET q == a \div b
        r == a - q * b
    IN  IF 2 * r < b THEN q
        ELSE IF 2 * r > b THEN q + 1
        ELSE IF q % 2 = 0 THEN q ELSE q + 1

(***************************************************************************)
(* pack_images_shelf, lines 72-82: the test that the next image fits the   *)
(* shelf, the cursor advance and the shelf height update.                  *)
(***************************************************************************)
Fits(w, shelf_x, pad, page_w) == w + shelf_x + pad <= page_w

AdvanceX_nopad(shelf_x, w, pad) == shelf_x + w

AdvanceX(shelf_x, w, pad) == shelf_x + w + pad

NewShelfHeight_last(h, shelf_height) == h

NewShelfHeight(h, shelf_height) == IF h > shelf_height THEN h ELSE shelf_height

RECURSIVE FillShelf(_, _, _, _, _, _, _, _)
FillShelf(images, idx_i, shelf_x, shelf_height, placed, yy, page_w, pad) ==
    IF idx_i < Len(images)
    THEN LET w == images[idx_i + 1][1]
             h == images[idx_i + 1][2]
             idx == images[idx_i + 1][3]
         IN  IF Fits(w, shelf_x, pad, page_w)
             THEN FillShelf(images, idx_i + 1, AdvanceX(shelf_x, w, pad),
                            NewShelfHeight(h, shelf_height),
                            Append(placed, <<idx, shelf_x, yy, w, h>>),
                            yy, page_w, pad)
             ELSE [i |-> idx_i, shelf_height |-> shelf_height, placements |-> placed]
    ELSE [i |-> idx_i, shelf_height |-> shelf_height, placements |-> placed]

(***************************************************************************)
(* pack_images_shelf, lines 86-96: the oversized-width branch scales the   *)
(* image to the usable width max_w and places it at the shelf start; the   *)
(* vertical cursor then moves below the shelf.                             *)
(***************************************************************************)
NextShelfY_nogap(yy, shelf_height, pad) == yy + pad

NextShelfY(yy, shelf_height, pad) == yy + shelf_height + pad

FallbackSize(w, h, max_w) == <<Round(w * max_w, w), Round(h * max_w, w)>>

FallbackPlace_drop(placed, idx, pad, yy, new_w, new_h) == placed

FallbackPlace(placed, idx, pad, yy, new_w, new_h) ==
    Append(placed, <<idx, pad, yy, new_w, new_h>>)

(***************************************************************************)
(* One pass of the shelf loop, lines 69-99, from cursor (idx_i, yy) with   *)
(* the page's placements so far.  status is "ok", or the exception the     *)
(* pass ends in; full tells that the pass left through the break of line   *)
(* 99; fallback is the id placed by the oversized-width branch, if any.    *)
(***************************************************************************)
ShelfPass(images, idx_i, yy, placed, page_w, page_h, pad) ==
    LET g == FillShelf(images, idx_i, pad, 0, placed, yy, page_w, pad)
        max_w == page_w - 2 * pad
    IN  IF g.shelf_height = 0
        THEN IF g.i >= Len(images)
             THEN [status |-> "IndexError", i |-> g.i, y |-> yy,
                   placements |-> g.placements, full |-> FALSE, fallback |-> {}]
             ELSE IF max_w <= 0
             THEN [status |-> "RuntimeError", i |-> g.i, y |-> yy,
                   placements |-> g.placements, full |-> FALSE, fallback |-> {}]
             ELSE LET w == images[g.i + 1][1]
                      h == images[g.i + 1][2]
                      idx == images[g.i + 1][3]
                      new == FallbackSize(w, h, max_w)
                      y2 == NextShelfY(yy, new[2], pad)
                  IN  [status |-> "ok", i |-> g.i + 1, y |-> y2,
                       placements |-> FallbackPlace(g.placements, idx, pad, yy,
                                                    new[1], new[2]),
                       full |-> (y2 >= page_h - pad /\ g.i + 1 < Len(images)),
                       fallback |-> {idx}]
        ELSE LET y2 == NextShelfY(yy, g.shelf_height, pad)
             IN  [status |-> "ok", i |-> g.i, y |-> y2,
                  placements |-> g.placements,
                  full |-> (y2 >= page_h - pad /\ g.i < Len(images)),
                  fallback |-> {}]

(***************************************************************************)
(* pack_images_shelf run to its end as a function of its arguments.        *)
(* FillPage is the shelf loop of one page (lines 66-99), PackFrom the page *)
(* loop (lines 65-101).  A page pass that places nothing leaves i where it *)
(* was, so the page loop repeats it without end: status "NoReturn".        *)
(***************************************************************************)
RECURSIVE FillPage(_, _, _, _, _, _, _)
FillPage(images, idx_i, yy, placed, page_w, page_h, pad) ==
    IF yy < page_h - pad /\ idx_i < Len(images)
    THEN LET r == ShelfPass(images, idx_i, yy, placed, page_w, page_h, pad)
         IN  IF r.status # "ok" \/ r.full
             THEN [status |-> r.status, i |-> r.i, placements |-> r.placements]
             ELSE FillPage(images, r.i, r.y, r.placements, page_w, page_h, pad)
    ELSE [status |-> "ok", i |-> idx_i, placements |-> placed]

RECURSIVE PackFrom(_, _, _, _, _, _)
PackFrom(images, idx_i, pgs, page_w, page_h, pad) ==
    IF idx_i < Len(images)
    THEN LET p == FillPage(images, idx_i, pad, <<>>, page_w, page_h, pad)
         IN  IF p.status # "ok" THEN [status |-> p.status, pages |-> pgs]
             ELSE IF p.i = idx_i THEN [status |-> "NoReturn", pages |-> pgs]
             ELSE PackFrom(images, p.i, Append(pgs, p.placements),
                           page_w, page_h, pad)
    ELSE [status |-> "ok", pages |-> pgs]

pack_images_shelf(images, page_w, page_h, pad) ==
    PackFrom(images, 0, <<>>, page_w, page_h, pad)

(***************************************************************************)
(* main, lines 146-158: the size normalisation and the stable sort by      *)
(* height, tallest first.  The scale min(1.0, max_w / w, max_h / h) is     *)
(* kept as the fraction <<numerator, denominator>>.                        *)
(***************************************************************************)
ScaleOf(w, h, max_w, max_h) ==
    LET sw == IF w > 0 THEN <<max_w, w>> ELSE <<1, 1>>
        sh == IF h > 0 THEN <<max_h, h>> ELSE <<1, 1>>
        least == IF sw[1] * sh[2] <= sh[1] * sw[2] THEN sw ELSE sh
    IN  IF least[1] >= least[2] THEN <<1, 1>> ELSE least

NormalizedSize(w, h, page_w, page_h) ==
    LET scale == ScaleOf(w, h, page_w - NORM_MARGIN, page_h - NORM_MARGIN)
    IN  <<Round(w * scale[1], scale[2]), Round(h * scale[1], scale[2])>>

InsertByHeight(sorted, e) ==
    LET k == Cardinality({j \in 1..Len(sorted) : sorted[j][2] >= e[2]})
    IN  SubSeq(sorted, 1, k) \o <<e>> \o SubSeq(sorted, k + 1, Len(sorted))

RECURSIVE SortByHeightDesc(_)
SortByHeightDesc(s) ==
    IF s = <<>> THEN <<>>
    ELSE InsertByHeight(SortByHeightDesc(SubSeq(s, 1, Len(s) - 1)), s[Len(s)])

(***************************************************************************)
(* Inputs.  Image sizes are positive integers and ids are the positions in *)
(* the original order; page sizes are positive and the padding is not      *)
(* negative.  ScenarioA and ScenarioC are the two worked examples of 3 and *)
(* of 5 equal images on a 300 x 300 page with padding 10.                  *)
(***************************************************************************)
Dims == (1..MaxDim) \X (1..MaxDim)

WithIds(f) == [k \in 1..Len(f) |-> <<f[k][1], f[k][2], k - 1>>]

ImageLists(maxLen) == {WithIds(f) : f \in UNION {[1..n -> Dims] : n \in 0..maxLen}}

ScenarioA ==
    [images |-> [k \in 1..3 |-> <<100, 100, k - 1>>], w |-> 300, h |-> 300, pad |-> 10]

ScenarioC ==
    [images |-> [k \in 1..5 |-> <<250, 50, k - 1>>], w |-> 300, h |-> 300, pad |-> 10]

Scenarios == {ScenarioA, ScenarioC}

n == Len(images_sizes)

(***************************************************************************)
(* Specification of one call of pack_images_shelf.                         *)
(***************************************************************************)
Init ==
    /\ \/ /\ images_sizes \in ImageLists(MaxImages)
          /\ page_w_px \in 1..MaxPage
          /\ page_h_px \in 1..MaxPage
          /\ padding \in 0..MaxPad
       \/ \E s \in Scenarios :
             /\ images_sizes = s.images
             /\ page_w_px = s.w
             /\ page_h_px = s.h
             /\ padding = s.pad
    /\ pages = <<>>
    /\ placements = <<>>
    /\ i = 0
    /\ y = 0
    /\ pc = "loop"
    /\ steps = 0
    /\ fallback_ids = {}
    /\ pil_sizes = <<>>
    /\ sizes = <<>>
    /\ longer = <<>>
    /\ outcome = <<>>

inputVars == <<images_sizes, page_w_px, page_h_px, padding, pil_sizes, sizes,
               longer, outcome>>

\* lines 65-67: the page loop is entered and a new page begun
PageStart ==
    /\ pc = "loop"
    /\ i < n
    /\ Len(pages) < n + MaxExtraPages
    /\ placements' = <<>>
    /\ y' = padding
    /\ pc' = "shelf"
    /\ UNCHANGED <<pages, i, steps, fallback_ids>>
    /\ UNCHANGED inputVars

\* lines 68-99: one pass of the shelf loop that raises nothing
ShelfStep ==
    /\ pc = "shelf"
    /\ y < page_h_px - padding /\ i < n
    /\ LET r == ShelfPass(images_sizes, i, y, placements, page_w_px, page_h_px,
                          padding)
       IN  /\ r.status = "ok"
           /\ placements' = r.placements
           /\ i' = r.i
           /\ y' = r.y
           /\ fallback_ids' = fallback_ids \cup r.fallback
           /\ pc' = IF r.full THEN "page_full" ELSE "shelf"
    /\ steps' = steps + 1
    /\ UNCHANGED pages
    /\ UNCHANGED inputVars

\* lines 83-89: the pass of the shelf loop ends in an exception
ShelfRaise ==
    /\ pc = "shelf"
    /\ y < page_h_px - padding /\ i < n
    /\ LET r == ShelfPass(images_sizes, i, y, placements, page_w_px, page_h_px,
                          padding)
       IN  /\ r.status # "ok"
           /\ placements' = r.placements
           /\ pc' = r.status
    /\ steps' = steps + 1
    /\ UNCHANGED <<pages, i, y, fallback_ids>>
    /\ UNCHANGED inputVars

\* line 100: the shelf loop is left, by its test or by the break, and the
\* page is appended
AppendPage ==
    /\ \/ pc = "page_full"
       \/ pc = "shelf" /\ ~(y < page_h_px - padding /\ i < n)
    /\ pages' = Append(pages, placements)
    /\ pc' = "loop"
    /\ UNCHANGED <<placements, i, y, steps, fallback_ids>>
    /\ UNCHANGED inputVars

\* line 101: the page loop is left and the pages are returned
Return ==
    /\ pc = "loop"
    /\ ~(i < n)
    /\ pc' = "done"
    /\ UNCHANGED packVars
    /\ UNCHANGED inputVars

Next ==
    \/ PageStart
    \/ ShelfStep
    \/ ShelfRaise
    \/ AppendPage
    \/ Return

Spec == Init /\ [][Next]_vars

(***************************************************************************)
(* Specification of main's preparation of the sizes, lines 146-158: each   *)
(* loaded image is normalised in turn, then the list is sorted.  main      *)
(* returns early on an empty image list (lines 127-129).                   *)
(***************************************************************************)
NaturalLists ==
    UNION {[1..m -> (1..MaxNatural) \X (1..MaxNatural)] : m \in 1..MaxNormImages}

InitNorm ==
    /\ pil_sizes \in NaturalLists
    /\ page_w_px \in 1..(NORM_MARGIN + MaxUsable)
    /\ page_h_px \in 1..(NORM_MARGIN + MaxUsable)
    /\ padding = MAIN_PADDING
    /\ sizes = <<>>
    /\ i = 0
    /\ pc = "normalize"
    /\ images_sizes = <<>>
    /\ pages = <<>>
    /\ placements = <<>>
    /\ y = 0
    /\ steps = 0
    /\ fallback_ids = {}
    /\ longer = <<>>
    /\ outcome = <<>>

\* lines 147-155: one pass of the normalisation loop
NormalizeNext ==
    /\ pc = "normalize"
    /\ i < Len(pil_sizes)
    /\ LET w == pil_sizes[i + 1][1]
           h == pil_sizes[i + 1][2]
           s == NormalizedSize(w, h, page_w_px, page_h_px)
       IN  sizes' = Append(sizes, <<s[1], s[2], i>>)
    /\ i' = i + 1
    /\ UNCHANGED <<images_sizes, page_w_px, page_h_px, padding, pages, placements,
                   y, pc, steps, fallback_ids, pil_sizes, longer, outcome>>

\* line 158: the sizes are sorted by height, tallest first
SortSizes ==
    /\ pc = "normalize"
    /\ ~(i < Len(pil_sizes))
    /\ sizes' = SortByHeightDesc(sizes)
    /\ pc' = "sorted"
    /\ UNCHANGED <<images_sizes, page_w_px, page_h_px, padding, pages, placements,
                   i, y, steps, fallback_ids, pil_sizes, longer, outcome>>

NextNorm ==
    \/ NormalizeNext
    \/ SortSizes

SpecNorm == InitNorm /\ [][NextNorm]_vars

(***************************************************************************)
(* Specification of the comparison of two runs of lines 157-162 under one  *)
(* configuration: a list, and the same list with one image added at any    *)
(* position, are each sorted and packed.  The configurations are those     *)
(* with room inside the padding, outside of which no call with an image    *)
(* returns (line 68 is false on entry or line 89 raises).                  *)
(***************************************************************************)
InsertAt(s, pos, e) == SubSeq(s, 1, pos) \o <<e>> \o SubSeq(s, pos + 1, Len(s))

InitMono ==
    /\ images_sizes \in ImageLists(MaxMonoImages)
    /\ longer = <<>>
    /\ page_w_px \in 1..MaxPage
    /\ page_h_px \in 1..MaxPage
    /\ padding \in 0..MaxPad
    /\ page_w_px - 2 * padding > 0
    /\ page_h_px - 2 * padding > 0
    /\ outcome = <<>>
    /\ pc = "compare"
    /\ pages = <<>>
    /\ placements = <<>>
    /\ i = 0
    /\ y = 0
    /\ steps = 0
    /\ fallback_ids = {}
    /\ pil_sizes = <<>>
    /\ sizes = <<>>

\* lines 158-162, once for each list
SortAndPack(images) ==
    pack_images_shelf(SortByHeightDesc(images), page_w_px, page_h_px, padding)

ComparePacks ==
    /\ pc = "compare"
    /\ LET shorter == SortAndPack(images_sizes)
       IN  \E d \in Dims, pos \in 0..Len(images_sizes) :
              /\ longer' = WithIds(InsertAt(images_sizes, pos, <<d[1], d[2], 0>>))
              /\ outcome' = <<shorter, SortAndPack(longer')>>
    /\ pc' = "compared"
    /\ UNCHANGED <<images_sizes, page_w_px, page_h_px, padding, pages, placements,
                   i, y, steps, fallback_ids, pil_sizes, sizes>>

NextMono == ComparePacks

SpecMono == InitMono /\ [][NextMono]_vars

(***************************************************************************)
(* Properties.                                                             *)
(***************************************************************************)
IsScenario(s) ==
    /\ images_sizes = s.images
    /\ page_w_px = s.w
    /\ page_h_px = s.h
    /\ padding = s.pad

\* the placement lists of the run: the pages emitted and the page being filled
PageLists == {pages[k] : k \in 1..Len(pages)} \cup {placements}

RECURSIVE Flatten(_)
Flatten(pgs) == IF pgs = <<>> THEN <<>> ELSE pgs[1] \o Flatten(Tail(pgs))

Larger(a, b) == IF a >= b THEN a ELSE b

Smaller(a, b) == IF a <= b THEN a ELSE b

\* the rectangles [x, x+w) x [y, y+h) of placements a and b have a common point
Intersect(a, b) ==
    /\ Larger(a[2], b[2]) < Smaller(a[2] + a[4], b[2] + b[4])
    /\ Larger(a[3], b[3]) < Smaller(a[3] + a[5], b[3] + b[5])

\* C1 (Containment): when the usable width is positive, every returned
\* placement that the oversized-width branch did not produce lies inside the
\* page minus its padding: x >= padding, y >= padding,
\* x + w <= pageWidth - padding and y + h <= pageHeight - padding.
C1_Containment ==
    (pc = "done" /\ page_w_px - 2 * padding > 0) =>
        \A k \in 1..Len(pages) : \A j \in 1..Len(pages[k]) :
            LET p == pages[k][j]
            IN  p[1] \notin fallback_ids =>
                    /\ p[2] >= padding
                    /\ p[3] >= padding
                    /\ p[2] + p[4] <= page_w_px - padding
                    /\ p[3] + p[5] <= page_h_px - padding

\* C2 (Non-overlap): two distinct placements of one page never intersect; of
\* two placements of a page, the later one is either on the same shelf and
\* to the right of the earlier, or on a shelf below it (fallback shelves
\* included).
C2_NonOverlap ==
    \A page \in PageLists : \A a, b \in 1..Len(page) :
        a < b =>
            /\ ~Intersect(page[a], page[b])
            /\ \/ page[a][3] = page[b][3] /\ page[a][2] + page[a][4] <= page[b][2]
               \/ page[a][3] + page[a][5] <= page[b][3]

C2_Witness ==
    /\ pc = "done"
    /\ \E k \in 1..Len(pages) : \E a, b, c \in 1..Len(pages[k]) :
          /\ a < b /\ b < c
          /\ pages[k][a][3] = pages[k][b][3]
          /\ pages[k][b][3] < pages[k][c][3]

\* C3 (Completeness): when the packer returns, the placements of all pages
\* carry exactly the ids of the input, each id in exactly one placement.
C3_Completeness ==
    pc = "done" =>
        LET all == Flatten(pages)
            ids == {images_sizes[k][3] : k \in 1..n}
        IN  /\ \A k \in 1..Len(all) : all[k][1] \in ids
            /\ \A id \in ids :
                  Cardinality({k \in 1..Len(all) : all[k][1] = id}) = 1

C3_Witness ==
    /\ pc = "done"
    /\ n >= 3
    /\ Len(pages) >= 2
    /\ fallback_ids # {}

\* C4 (Termination): a run of N images makes at most N passes of the shelf
\* loop, each placing an image, and so at most N passes of the page loop;
\* the page loop does not go on beyond that.
C4_Termination ==
    /\ steps <= n
    /\ Len(pages) <= n

\* C5 (Configuration error): when pageWidth - 2*padding <= 0 the call never
\* returns a page list and never makes a placement or a page; it ends in the
\* RuntimeError, whatever the image list.
C5_ConfigurationError ==
    page_w_px - 2 * padding <= 0 =>
        /\ pc # "done"
        /\ pages = <<>>
        /\ placements = <<>>

\* C6 (Scenario C): 5 images of (250,50) on a (300,300) page with padding 10
\* come out one per shelf on 2 pages, 4 shelves on page 1 and 1 on page 2.
C6_ScenarioC ==
    (IsScenario(ScenarioC) /\ pc = "done") =>
        /\ Len(pages) = 2
        /\ Len(pages[1]) = 4
        /\ Len(pages[2]) = 1
        /\ \A k \in 1..Len(pages) : \A a, b \in 1..Len(pages[k]) :
              a # b => pages[k][a][3] # pages[k][b][3]

\* C7 (Scenario A), as stated: 3 images of (100,100) on a (300,300) page with
\* padding 10 are all on one shelf at y = 10 with x = 10, 120 and 230, on one
\* page.
C7_ScenarioA_Stated ==
    (IsScenario(ScenarioA) /\ pc = "done") =>
        pages = << << <<0, 10, 10, 100, 100>>, <<1, 120, 10, 100, 100>>,
                      <<2, 230, 10, 100, 100>> >> >>

\* C7 (Scenario A), amended: the shelf takes images while
\* w + x + padding <= pageWidth, so the first two images are on the shelf at
\* y = 10 with x = 10 and 120, the third (100 + 230 + 10 > 300) opens a second
\* shelf at x = 10, y = 120, and there is one page.
C7_ScenarioA_Amended ==
    (IsScenario(ScenarioA) /\ pc = "done") =>
        pages = << << <<0, 10, 10, 100, 100>>, <<1, 120, 10, 100, 100>>,
                      <<2, 10, 120, 100, 100>> >> >>

C7_Witness ==
    /\ IsScenario(ScenarioA)
    /\ pc = "done"
    /\ Len(pages) = 1
    /\ Len(pages[1]) = 3

\* C8 (Size normalization): every normalised size (w2, h2) of an image of
\* natural size (w, h) has 1 <= w2 <= w, 1 <= h2 <= h, w2 <= pageWidth - 16
\* and h2 <= pageHeight - 16.
C8_NormalizedSize ==
    \A k \in 1..Len(sizes) :
        LET w2 == sizes[k][1]
            h2 == sizes[k][2]
            w == pil_sizes[sizes[k][3] + 1][1]
            h == pil_sizes[sizes[k][3] + 1][2]
        IN  /\ 1 <= w2 /\ w2 <= w
            /\ 1 <= h2 /\ h2 <= h
            /\ w2 <= page_w_px - NORM_MARGIN
            /\ h2 <= page_h_px - NORM_MARGIN

\* C9 (Monotonic page growth): under one configuration, when both a list and
\* the list with one image added are sorted by height and packed to the end,
\* the longer list gives at least as many pages.
C9_MonotonicPages ==
    (pc = "compared" /\ outcome[1].status = "ok" /\ outcome[2].status = "ok") =>
        Len(outcome[2].pages) >= Len(outcome[1].pages)

C9_Witness ==
    /\ pc = "compared"
    /\ outcome[1].status = "ok"
    /\ outcome[2].status = "ok"
    /\ Len(outcome[1].pages) >= 2
    /\ Len(outcome[2].pages) > Len(outcome[1].pages)
    /\ \E k \in 1..Len(longer) : longer[k][1] > page_w_px - 2 * padding

\* C10 (Non-empty pages): every page appended to the page list holds at least
\* one placement.
C10_NonEmptyPages ==
    \A k \in 1..Len(pages) : pages[k] # <<>>

\* The run of the step machine returns exactly what pack_images_shelf, taken
\* as a function, returns.
StepsAgreeWithFunction ==
    LET r == pack_images_shelf(images_sizes, page_w_px, page_h_px, padding)
    IN  /\ pc = "done" => r.status = "ok" /\ r.pages = pages
        /\ pc \in {"RuntimeError", "IndexError"} => r.status = pc /\ r.pages = pages
        /\ r.status = "NoReturn" => pc \notin {"done", "RuntimeError", "IndexError"}

====
